---- MODULE Spec2Model ----
(***************************************************************************)
(* Model of src/main.py: a Telegram bot that runs Play-Store crawls as     *)
(* asyncio tasks.  The state is the module's globals (active_tasks,        *)
(* session_stats), the per-user user_data dictionaries, the two external   *)
(* stores (the Realtime-Database node 'scraped_emails' and the Firestore   *)
(* keyword queue) and, for every coroutine, the await at which it is       *)
(* suspended.  One step of the model is one run of a coroutine from one    *)
(* await to the next: asyncio runs that stretch without interleaving.      *)
(***************************************************************************)
EXTENDS Integers, Sequences, FiniteSets, TLC

\* ------------------------------------------------------------ bounds
MaxTasks == 2          \* crawl tasks created in one behaviour
MaxKeys  == 1          \* configured Groq keys
MaxTerms == 1          \* terms in a provider's answer
MaxHits  == 1          \* items returned by one catalog search
MaxQueue == 1          \* items initially in the keyword queue
NumRegions == 1        \* regions of the configured list that are crawled

\* ------------------------------------------------------------ constants
None == "None"
InstallCeiling == 10000
MaxKeywords == 50
ProgressEvery == 5

OWNER_IDS == {"A", "B"}
Texts == {"a"}
QueueItems == <<"b", "a">>
countries == <<"us", "gb", "ca", "au", "in">>

\* first_name of a Telegram user
NameOf(uid) == IF uid = "A" THEN "Ann" ELSE "Bob"

\* ------------------------------------------------------------ strings
\* Strings that the code takes apart are sequences of one-character strings.
Digits == {"0", "1", "2", "3", "4", "5", "6", "7", "8", "9"}

DigitVal(c) ==
  CASE c = "0" -> 0 [] c = "1" -> 1 [] c = "2" -> 2 [] c = "3" -> 3
    [] c = "4" -> 4 [] c = "5" -> 5 [] c = "6" -> 6 [] c = "7" -> 7
    [] c = "8" -> 8 [] c = "9" -> 9

RECURSIVE ToInt(_)
ToInt(s) == IF s = <<>> THEN 0
            ELSE 10 * ToInt(SubSeq(s, 1, Len(s) - 1)) + DigitVal(s[Len(s)])

IsDigit(c) == c \in Digits

RECURSIVE DigitPrefix(_)
DigitPrefix(s) == IF s = <<>> \/ ~IsDigit(s[1]) THEN <<>>
                  ELSE <<s[1]>> \o DigitPrefix(Tail(s))

\* the number read up to the first non-digit only: "10,000+" reads as 10
parse_installs_prefix(install_str) == ToInt(DigitPrefix(install_str))

\* parse_installs: drop every non-digit, read the rest as a decimal number
parse_installs(install_str) ==
  LET clean == SelectSeq(install_str, IsDigit)
  IN  IF install_str = <<>> THEN 0
      ELSE IF clean = <<>> THEN 0 ELSE ToInt(clean)

LowerChar(c) == CASE c = "A" -> "a" [] c = "B" -> "b" [] OTHER -> c

RECURSIVE StripLeft(_)
StripLeft(s) == IF s # <<>> /\ s[1] = " " THEN StripLeft(Tail(s)) ELSE s

RECURSIVE StripRight(_)
StripRight(s) == IF s # <<>> /\ s[Len(s)] = " "
                 THEN StripRight(SubSeq(s, 1, Len(s) - 1)) ELSE s

\* str.lower().strip()
Normalize(s) == StripLeft(StripRight([i \in 1..Len(s) |-> LowerChar(s[i])]))

\* re.match(r"[^@]+@[^@]+\.[^@]+", email): anchored at the start only
FormatOk(email) ==
  \E i \in 2..Len(email) :
    /\ email[i] = "@"
    /\ \A h \in 1..(i - 1) : email[h] # "@"
    /\ \E j \in (i + 2)..(Len(email) - 1) :
         /\ email[j] = "."
         /\ \A h \in (i + 1)..(j + 1) : email[h] # "@"

RECURSIVE ReplaceChar(_, _, _)
ReplaceChar(s, old, new) ==
  IF s = <<>> THEN <<>>
  ELSE (IF s[1] = old THEN new ELSE <<s[1]>>) \o ReplaceChar(Tail(s), old, new)

\* email.replace('.', '_').replace('@', '_at_')
safe_key(email) ==
  ReplaceChar(ReplaceChar(email, ".", <<"_">>), "@", <<"_", "a", "t", "_">>)

\* ------------------------------------------------------------ catalog
\* What the Play Store answers: app_details(app_id) for the items a search
\* can return.
Apps == {"p1", "p2"}
\* two more items, whose contacts differ in one character ('.' against '_')
KeyApps == {"p3", "p4"}

Catalog(app_id) ==
  CASE app_id = "p1" ->
         [installs |-> <<"9", ",", "9", "9", "9">>,
          developerEmail |-> <<"A", "@", "b", ".", "c", " ">>]
    [] app_id = "p2" ->
         [installs |-> <<"1", "0", ",", "0", "0", "0", "+">>,
          developerEmail |-> <<"d", "@", "b", ".", "c">>]
    [] app_id = "p3" ->
         [installs |-> <<"5", "0", "0", "+">>,
          developerEmail |-> <<"a", "@", "b", ".", "c", ".", "d">>]
    [] app_id = "p4" ->
         [installs |-> <<"5", "0", "0", "+">>,
          developerEmail |-> <<"a", "@", "b", "_", "c", ".", "d">>]

\* play_search(kw, country): the result lists a search may return
RECURSIVE SeqsUpTo(_, _)
SeqsUpTo(S, n) ==
  IF n = 0 THEN {<<>>}
  ELSE LET shorter == SeqsUpTo(S, n - 1)
       IN  shorter \cup {Append(q, x) : q \in shorter, x \in S}


\* A provider's answer, already cut at its commas: the fields of res.split(',')
RawFields == {" a", ""}
StripField(f) == CASE f = " a" -> "a" [] OTHER -> f
IsTerm(f) == StripField(f) # ""

Take(s, n) == SubSeq(s, 1, IF Len(s) < n THEN Len(s) ELSE n)

\* [k.strip() for k in res.split(',') if k.strip()][:50]
ParseAnswer(res) ==
  LET kept == SelectSeq(res, IsTerm)
  IN  Take([i \in 1..Len(kept) |-> StripField(kept[i])], MaxKeywords)

\* ------------------------------------------------------------ state
VARIABLES
  scope,          \* the part of the input space one behaviour explores
  groq_keys,      \* len(GROQ_KEYS)
  active_tasks,   \* uid -> index of the task last stored for uid, 0: no entry
  session_stats,  \* the global status register
  user_data,      \* uid -> user_data.get('stop_signal')
  tasks,          \* the crawl tasks ever created, in creation order
  handler,        \* the update handler that is suspended at an await, if any
  store,          \* keys present under db.reference('scraped_emails')
  queue           \* the Firestore keyword collection

vars == <<scope, groq_keys, active_tasks, session_stats, user_data, tasks,
          handler, store, queue>>

\* scope never changes: it holds, for this behaviour, the admins that send
\* updates, the number of tasks that may be created, and how much the outside
\* world may answer (terms per provider answer, hits per search, regions of
\* `countries` that are crawled, items of the catalog, outcomes of a queue
\* fetch).
Regions == SubSeq(countries, 1, scope.regions)
SearchResults == SeqsUpTo(scope.apps, scope.hits)
Answers == SeqsUpTo(RawFields, scope.terms)

\* session_stats['status']: "Idle", "Stopped" or f"Running: {base_kw}"
Idle == <<"Idle">>
Stopped == <<"Stopped">>
Running(base_kw) == <<"Running", base_kw>>

\* '"Stopped" in status': a substring test on the status text
ContainsStopped(status) ==
  \/ status = Stopped
  \/ Len(status) = 2 /\ status[2] = "Stopped"

\* truth value of context.user_data.get('stop_signal')
stop_signal(uid) == user_data[uid] = "True"

TaskIds == 1..Len(tasks)


\* the awaits of scrape_task between its first statement and the busy-state reset
CrawlPcs == {"send_status", "expand", "edit_gen", "progress", "sleep", "search",
             "details", "validate"}
LoopPcs == {"progress", "sleep", "search", "details", "validate"}

InCrawl(t) == tasks[t].pc \in CrawlPcs

NoPendingCancel == \A t \in TaskIds : tasks[t].cancel = "none"
NoneCreated == \A t \in TaskIds : tasks[t].pc # "created"

\* asyncio.create_task(scrape_task(base_kw, context, uid, user_name, is_auto))
NewTask(base_kw, uid, is_auto) ==
  [uid |-> uid, base_kw |-> base_kw, is_auto |-> is_auto, pc |-> "created",
   cancel |-> "none", key_idx |-> 0, keywords |-> <<>>, kw_idx |-> 0,
   c_idx |-> 0, results |-> <<>>, r_idx |-> 0, email |-> <<>>,
   leads |-> <<>>, new_count |-> 0, signalled |-> FALSE]

\* outcomes of the Firestore calls of execute_auto_search
FetchOutcomes == {"ok", "get_error", "delete_error"}

Start ==
  /\ groq_keys = MaxKeys
  /\ active_tasks = [u \in OWNER_IDS |-> 0]
  /\ session_stats = [total_leads |-> 0, start_time |-> 0, status |-> Idle,
                      active_by_id |-> None, active_by_name |-> None]
  /\ user_data = [u \in OWNER_IDS |-> "absent"]
  /\ tasks = <<>>
  /\ handler = [pc |-> "idle", uid |-> None]
  /\ store = {}
  /\ queue = SubSeq(QueueItems, 1, MaxQueue)

\* two admins, a crawl of one term, one region and one hit
Init ==
  /\ scope = [owners |-> OWNER_IDS, tasks |-> MaxTasks, terms |-> MaxTerms,
              hits |-> MaxHits, regions |-> NumRegions, apps |-> Apps,
              fetch |-> FetchOutcomes]
  /\ Start

\* one admin, a crawl of several terms and regions
InitDeep ==
  /\ scope = [owners |-> {"A"}, tasks |-> MaxTasks, terms |-> MaxTerms + 1,
              hits |-> MaxHits, regions |-> NumRegions + 1, apps |-> Apps,
              fetch |-> FetchOutcomes]
  /\ Start

\* the keyword queue of the auto-chain scenario
ChainQueue == <<"a", "b">>

\* one admin, a queue of two items that can always be fetched
InitChain ==
  /\ scope = [owners |-> {"A"}, tasks |-> MaxTasks + 1, terms |-> MaxTerms + 1,
              hits |-> MaxHits, regions |-> NumRegions, apps |-> Apps,
              fetch |-> {"ok"}]
  /\ groq_keys = MaxKeys
  /\ active_tasks = [u \in OWNER_IDS |-> 0]
  /\ session_stats = [total_leads |-> 0, start_time |-> 0, status |-> Idle,
                      active_by_id |-> None, active_by_name |-> None]
  /\ user_data = [u \in OWNER_IDS |-> "absent"]
  /\ tasks = <<>>
  /\ handler = [pc |-> "idle", uid |-> None]
  /\ store = {}
  /\ queue = ChainQueue

\* one admin, a catalog of two items whose contacts differ in one character
InitKeys ==
  /\ scope = [owners |-> {"A"}, tasks |-> MaxTasks, terms |-> MaxTerms,
              hits |-> MaxHits, regions |-> NumRegions, apps |-> KeyApps,
              fetch |-> FetchOutcomes]
  /\ Start

\* ------------------------------------------------------------ scrape_task
\* A frame is what one run of scrape_task between two awaits reads and writes:
\* its own locals (tk), session_stats (ss) and the dedup store (db).
Frame(t) == [tk |-> tasks[t], ss |-> session_stats, db |-> store]

Commit(t, F) ==
  /\ tasks' = [tasks EXCEPT ![t] = F.tk]
  /\ session_stats' = F.ss
  /\ store' = F.db

\* The coroutine is over (returned, raised or was cancelled): of its locals
\* only the batch is kept.
End(F) ==
  [F EXCEPT !.tk.pc = "done", !.tk.key_idx = 0, !.tk.keywords = <<>>,
            !.tk.kw_idx = 0, !.tk.c_idx = 0, !.tk.results = <<>>,
            !.tk.r_idx = 0, !.tk.email = <<>>, !.tk.signalled = FALSE]

\* finally: chain on when no stop was requested and the task is an auto task
Finally(F, stop) ==
  IF ~stop /\ F.tk.is_auto
  THEN [End(F) EXCEPT !.tk.pc = "chain_sleep"]
  ELSE End(F)

\* "Reset Busy State", then the export await
AfterLoop(F) ==
  [F EXCEPT !.ss.status = Idle, !.ss.active_by_id = None,
            !.ss.active_by_name = None,
            !.tk.pc = "export", !.tk.keywords = <<>>, !.tk.kw_idx = 0,
            !.tk.c_idx = 0]

RECURSIVE EnterKw(_, _)
RECURSIVE EnterCountry(_, _)
RECURSIVE EnterItem(_, _)

\* for kw_idx, kw in enumerate(keywords): checkpoint, then the periodic progress
EnterKw(F, stop) ==
  IF F.tk.kw_idx > Len(F.tk.keywords) \/ stop THEN AfterLoop(F)
  ELSE IF (F.tk.kw_idx - 1) % ProgressEvery = 0
       THEN [F EXCEPT !.tk.pc = "progress"]
       ELSE EnterCountry([F EXCEPT !.tk.c_idx = 1], stop)

\* for country in countries: checkpoint, then the pacing sleep
EnterCountry(F, stop) ==
  IF F.tk.c_idx > Len(Regions) \/ stop
  THEN EnterKw([F EXCEPT !.tk.kw_idx = @ + 1, !.tk.c_idx = 0], stop)
  ELSE [F EXCEPT !.tk.pc = "sleep"]

\* for r in results: checkpoint, then the detail fetch
EnterItem(F, stop) ==
  IF F.tk.r_idx > Len(F.tk.results) \/ stop
  THEN EnterCountry([F EXCEPT !.tk.c_idx = @ + 1, !.tk.results = <<>>,
                              !.tk.r_idx = 0, !.tk.email = <<>>], stop)
  ELSE [F EXCEPT !.tk.pc = "details", !.tk.email = <<>>]

NextItem(F, stop) == EnterItem([F EXCEPT !.tk.r_idx = @ + 1], stop)

\* the failure of a pair not swallowed: it reaches "except Exception"
NextCountryAbort(F, stop) == [F EXCEPT !.tk.pc = "crash_log"]

NextCountry(F, stop) ==
  EnterCountry([F EXCEPT !.tk.c_idx = @ + 1, !.tk.results = <<>>,
                         !.tk.r_idx = 0, !.tk.email = <<>>], stop)

\* the dedup check left out: the store is never consulted
ReservedNever(db, key) == FALSE

\* if ref.child(safe_key).get(): continue
Reserved(db, key) == key \in db

\* the item filter between the detail fetch and the MX lookup
AfterDetails(F, stop, app_id) ==
  LET app == Catalog(app_id)
      installs == parse_installs(app.installs)
      email == Normalize(app.developerEmail)
  IN  IF installs >= InstallCeiling THEN NextItem(F, stop)
      ELSE IF email = <<>> \/ ~FormatOk(email) THEN NextItem(F, stop)
      ELSE [F EXCEPT !.tk.pc = "validate", !.tk.email = email]

\* from the MX answer to the next item: dedup check, reservation, append
AfterValidate(F, stop, mx, dbres) ==
  LET key == safe_key(F.tk.email)
      data == [app_id |-> F.tk.results[F.tk.r_idx], email |-> F.tk.email,
               country |-> Regions[F.tk.c_idx],
               keyword |-> F.tk.keywords[F.tk.kw_idx]]
  IN  IF ~mx \/ dbres = "get_error" THEN NextItem(F, stop)
      ELSE IF Reserved(F.db, key)
           THEN NextItem(F, stop)
      ELSE IF dbres = "set_error" THEN NextItem(F, stop)
      ELSE IF dbres = "set_unacked"
           THEN NextItem([F EXCEPT !.db = @ \cup {key}], stop)
      ELSE NextItem([F EXCEPT !.db = @ \cup {key},
                              !.tk.leads = Append(@, data),
                              !.tk.new_count = @ + 1,
                              !.ss.total_leads = @ + 1], stop)

\* get_expanded_keywords: the next key's request, or the fallback [base_kw]
NextKey(F) ==
  IF F.tk.key_idx < groq_keys
  THEN [F EXCEPT !.tk.pc = "expand", !.tk.key_idx = @ + 1]
  ELSE [F EXCEPT !.tk.pc = "edit_gen", !.tk.key_idx = 0,
                 !.tk.keywords = <<F.tk.base_kw>>]

\* except Exception: send_log, then "Reset on crash"
AfterCrashLog(F, stop) ==
  Finally([F EXCEPT !.ss.status = Idle, !.ss.active_by_id = None], stop)

\* The task's first run: lines 126-147, up to the status message.
TaskStart(t) ==
  /\ tasks[t].pc = "created" /\ tasks[t].cancel = "none"
  /\ user_data' = [user_data EXCEPT ![tasks[t].uid] = "False"]
  /\ session_stats' = [session_stats EXCEPT
                         !.status = Running(tasks[t].base_kw),
                         !.start_time = t,
                         !.active_by_id = tasks[t].uid,
                         !.active_by_name = NameOf(tasks[t].uid)]
  /\ tasks' = [tasks EXCEPT ![t].pc = "send_status"]
  /\ UNCHANGED <<scope, groq_keys, active_tasks, handler, store, queue>>

\* send_message returned or raised (outside the try: the task dies there).
StatusSent(t) ==
  /\ tasks[t].pc = "send_status" /\ tasks[t].cancel = "none"
  /\ \/ Commit(t, NextKey(Frame(t)))
     \/ Commit(t, End(Frame(t)))
  /\ UNCHANGED <<scope, groq_keys, active_tasks, user_data, handler, queue>>

\* One provider request ended: status 200 with an answer, or anything else.
ExpandResp(t) ==
  /\ tasks[t].pc = "expand" /\ tasks[t].cancel = "none"
  /\ \/ \E res \in Answers :
          Commit(t, [Frame(t) EXCEPT !.tk.pc = "edit_gen", !.tk.key_idx = 0,
                                     !.tk.keywords = ParseAnswer(res)])
     \/ Commit(t, NextKey(Frame(t)))
  /\ UNCHANGED <<scope, groq_keys, active_tasks, user_data, handler, queue>>

\* The "Generated n keywords" edit returned or raised (outside the try).
EditGen(t) ==
  /\ tasks[t].pc = "edit_gen" /\ tasks[t].cancel = "none"
  /\ \/ Commit(t, EnterKw([Frame(t) EXCEPT !.tk.kw_idx = 1],
                          stop_signal(tasks[t].uid)))
     \/ Commit(t, End(Frame(t)))
  /\ UNCHANGED <<scope, groq_keys, active_tasks, user_data, handler, queue>>

\* The periodic progress edit returned or raised: either way the crawl goes on.
Progress(t) ==
  /\ tasks[t].pc = "progress" /\ tasks[t].cancel = "none"
  /\ Commit(t, EnterCountry([Frame(t) EXCEPT !.tk.c_idx = 1],
                            stop_signal(tasks[t].uid)))
  /\ UNCHANGED <<scope, groq_keys, active_tasks, user_data, handler, queue>>

\* asyncio.sleep(0.5) is over: the search request goes out.
Sleep(t) ==
  /\ tasks[t].pc = "sleep" /\ tasks[t].cancel = "none"
  /\ Commit(t, [Frame(t) EXCEPT !.tk.pc = "search"])
  /\ UNCHANGED <<scope, groq_keys, active_tasks, user_data, handler, queue>>

\* play_search returned a list (possibly empty) or raised.
Search(t) ==
  /\ tasks[t].pc = "search" /\ tasks[t].cancel = "none"
  /\ \/ \E results \in SearchResults :
          Commit(t, EnterItem([Frame(t) EXCEPT !.tk.results = results,
                                               !.tk.r_idx = 1],
                              stop_signal(tasks[t].uid)))
     \/ Commit(t, NextCountry(Frame(t), stop_signal(tasks[t].uid)))
  /\ UNCHANGED <<scope, groq_keys, active_tasks, user_data, handler, queue>>

\* app_details returned the item, or returned nothing or raised.
Details(t) ==
  /\ tasks[t].pc = "details" /\ tasks[t].cancel = "none"
  /\ \/ Commit(t, AfterDetails(Frame(t), stop_signal(tasks[t].uid),
                               tasks[t].results[tasks[t].r_idx]))
     \/ Commit(t, NextItem(Frame(t), stop_signal(tasks[t].uid)))
  /\ UNCHANGED <<scope, groq_keys, active_tasks, user_data, handler, queue>>

\* The MX lookup of validate_email ended; then the store is read and written.
Validate(t) ==
  /\ tasks[t].pc = "validate" /\ tasks[t].cancel = "none"
  /\ \E mx \in BOOLEAN,
        dbres \in {"ok", "get_error", "set_error", "set_unacked"} :
       Commit(t, AfterValidate(Frame(t), stop_signal(tasks[t].uid), mx, dbres))
  /\ UNCHANGED <<scope, groq_keys, active_tasks, user_data, handler, queue>>

\* send_document / send_message of the result returned or raised.
Export(t) ==
  /\ tasks[t].pc = "export" /\ tasks[t].cancel = "none"
  /\ \/ Commit(t, Finally(Frame(t), stop_signal(tasks[t].uid)))
     \/ Commit(t, [Frame(t) EXCEPT !.tk.pc = "crash_log"])
  /\ UNCHANGED <<scope, groq_keys, active_tasks, user_data, handler, queue>>

\* send_log of the crash ended (it never raises).
CrashLog(t) ==
  /\ tasks[t].pc = "crash_log" /\ tasks[t].cancel = "none"
  /\ Commit(t, AfterCrashLog(Frame(t), stop_signal(tasks[t].uid)))
  /\ UNCHANGED <<scope, groq_keys, active_tasks, user_data, handler, queue>>

\* ------------------------------------------------------------ auto chain
\* execute_auto_search up to its first await: what it decides.  fetch is the
\* outcome of the Firestore calls (limit(1).get(), then reference.delete()).
AutoSearch(uid, fetch) ==
  IF stop_signal(uid) THEN [next |-> "return", pop |-> FALSE]
  ELSE IF fetch = "get_error" THEN [next |-> "auto_err_log", pop |-> FALSE]
  ELSE IF queue # <<>>
       THEN IF fetch = "delete_error"
            THEN [next |-> "auto_err_log", pop |-> FALSE]
            ELSE [next |-> "return", pop |-> TRUE]
       ELSE [next |-> "auto_empty_msg", pop |-> FALSE]

\* The writes of execute_auto_search; tasks_now is the task list with the
\* caller's own position already updated.
execute_auto_search(uid, fetch, tasks_now) ==
  LET r == AutoSearch(uid, fetch)
  IN  /\ r.pop => Len(tasks) < scope.tasks
      /\ tasks' = IF r.pop
                  THEN Append(tasks_now, NewTask(Head(queue), uid, TRUE))
                  ELSE tasks_now
      /\ queue' = IF r.pop THEN Tail(queue) ELSE queue
      /\ active_tasks' = IF r.pop
                         THEN [active_tasks EXCEPT ![uid] = Len(tasks) + 1]
                         ELSE active_tasks

PcAfter(next) == IF next = "return" THEN "done" ELSE next

\* finally: asyncio.sleep(2) is over, execute_auto_search runs in the task.
ChainSleep(t) ==
  /\ tasks[t].pc = "chain_sleep" /\ tasks[t].cancel = "none"
  /\ \E fetch \in scope.fetch :
       execute_auto_search(tasks[t].uid, fetch,
         [tasks EXCEPT ![t].pc = PcAfter(AutoSearch(tasks[t].uid, fetch).next)])
  /\ UNCHANGED <<scope, groq_keys, session_stats, user_data, handler, store>>

\* "Database empty" was sent (then the register is set) or the send raised.
ChainEmptyMsg(t) ==
  /\ tasks[t].pc = "auto_empty_msg" /\ tasks[t].cancel = "none"
  /\ \/ Commit(t, End([Frame(t) EXCEPT !.ss.status = Idle,
                                       !.ss.active_by_id = None]))
     \/ Commit(t, [Frame(t) EXCEPT !.tk.pc = "auto_err_log"])
  /\ UNCHANGED <<scope, groq_keys, active_tasks, user_data, handler, queue>>

\* the fetch tried again after the error was logged
ChainErrLogRetry(t) ==
  /\ tasks[t].pc = "auto_err_log" /\ tasks[t].cancel = "none"
  /\ Commit(t, [Frame(t) EXCEPT !.tk.pc = "chain_sleep"])
  /\ UNCHANGED <<scope, groq_keys, active_tasks, user_data, handler, queue>>

\* send_log("Auto Mode Error") ended, then status = "Idle".
ChainErrLog(t) ==
  /\ tasks[t].pc = "auto_err_log" /\ tasks[t].cancel = "none"
  /\ Commit(t, End([Frame(t) EXCEPT !.ss.status = Idle]))
  /\ UNCHANGED <<scope, groq_keys, active_tasks, user_data, handler, queue>>

\* ------------------------------------------------------------ cancellation
\* Task.cancel() raises CancelledError at the await the task is suspended at.
\* A bare "except:" catches it; "except Exception" does not.
OnCancel(F, stop) ==
  LET pc == F.tk.pc
  IN  CASE pc \in {"created", "send_status", "edit_gen", "chain_sleep",
                   "auto_empty_msg"} -> End(F)
        [] pc = "expand" -> NextKey(F)
        [] pc = "progress" -> EnterCountry([F EXCEPT !.tk.c_idx = 1], stop)
        [] pc = "sleep" -> Finally(F, stop)
        [] pc = "search" -> NextCountry(F, stop)
        [] pc \in {"details", "validate"} -> NextItem(F, stop)
        [] pc = "export" -> Finally(F, stop)
        [] pc = "crash_log" -> AfterCrashLog(F, stop)
        [] pc = "auto_err_log" -> End([F EXCEPT !.ss.status = Idle])

TaskCancelled(t) ==
  /\ tasks[t].cancel # "none"
  /\ Commit(t, OnCancel([Frame(t) EXCEPT !.tk.cancel = "none"],
                        stop_signal(tasks[t].uid)))
  /\ UNCHANGED <<scope, groq_keys, active_tasks, user_data, handler, queue>>

\* active_tasks[uid].cancel(), when uid has an entry and its task is not over
Cancel(uid, by) ==
  [t \in TaskIds |->
     IF t = active_tasks[uid] /\ tasks[t].pc # "done"
     THEN [tasks[t] EXCEPT !.cancel = by] ELSE tasks[t]]

\* ------------------------------------------------------------ handlers
\* Updates are handled one at a time; a callback handler first awaits
\* q.answer(), so every created task has started and every cancellation has
\* been delivered before its branch runs.
message_handler(uid, text) ==
  /\ handler.pc = "idle" /\ NoPendingCancel
  /\ IF session_stats.status # Idle /\ ~ContainsStopped(session_stats.status)
     THEN UNCHANGED vars
     ELSE /\ Len(tasks) < scope.tasks
          /\ tasks' = Append(tasks, NewTask(text, uid, FALSE))
          /\ active_tasks' = [active_tasks EXCEPT ![uid] = Len(tasks) + 1]
          /\ UNCHANGED <<scope, groq_keys, session_stats, user_data, handler, store,
                         queue>>

\* the busy check of 'auto_s'
AutoBusy(uid) ==
  session_stats.status # Idle /\ session_stats.active_by_id # uid

\* cb_handler, 'auto_s', up to the edit_message_text await
auto_s(uid) ==
  /\ handler.pc = "idle" /\ NoPendingCancel /\ NoneCreated
  /\ IF AutoBusy(uid)
     THEN UNCHANGED vars
     ELSE /\ user_data' = [user_data EXCEPT ![uid] = "False"]
          /\ handler' = [pc |-> "auto_init", uid |-> uid]
          /\ UNCHANGED <<scope, groq_keys, active_tasks, session_stats, tasks, store,
                         queue>>

\* 'auto_s': the edit returned (execute_auto_search runs) or raised
AutoInit ==
  /\ handler.pc = "auto_init"
  /\ \/ \E fetch \in scope.fetch :
          /\ execute_auto_search(handler.uid, fetch, tasks)
          /\ handler' = IF AutoSearch(handler.uid, fetch).next = "return"
                        THEN [pc |-> "idle", uid |-> None]
                        ELSE [handler EXCEPT
                                !.pc = AutoSearch(handler.uid, fetch).next]
     \/ /\ handler' = [pc |-> "idle", uid |-> None]
        /\ UNCHANGED <<tasks, queue, active_tasks>>
  /\ UNCHANGED <<scope, groq_keys, session_stats, user_data, store>>

\* 'auto_s': "Database empty" was sent, or the send raised
HandlerEmptyMsg ==
  /\ handler.pc = "auto_empty_msg"
  /\ \/ /\ session_stats' = [session_stats EXCEPT !.status = Idle,
                                                  !.active_by_id = None]
        /\ handler' = [pc |-> "idle", uid |-> None]
     \/ /\ handler' = [handler EXCEPT !.pc = "auto_err_log"]
        /\ UNCHANGED session_stats
  /\ UNCHANGED <<scope, groq_keys, active_tasks, user_data, tasks, store, queue>>

\* 'auto_s': send_log("Auto Mode Error") ended
HandlerErrLog ==
  /\ handler.pc = "auto_err_log"
  /\ session_stats' = [session_stats EXCEPT !.status = Idle]
  /\ handler' = [pc |-> "idle", uid |-> None]
  /\ UNCHANGED <<scope, groq_keys, active_tasks, user_data, tasks, store, queue>>

\* the owner check of 'stop_loop'
NotStopper(uid) ==
  session_stats.active_by_id # None /\ session_stats.active_by_id # uid

\* cb_handler, 'stop_loop'
stop_loop(uid) ==
  /\ handler.pc = "idle" /\ NoPendingCancel /\ NoneCreated
  /\ IF NotStopper(uid)
     THEN UNCHANGED vars
     ELSE /\ user_data' = [user_data EXCEPT ![uid] = "True"]
          /\ tasks' = [t \in TaskIds |->
                         IF tasks[t].uid = uid /\ InCrawl(t)
                         THEN [Cancel(uid, "stop")[t] EXCEPT !.signalled = TRUE]
                         ELSE Cancel(uid, "stop")[t]]
          /\ session_stats' = [session_stats EXCEPT !.status = Stopped,
                                                    !.active_by_id = None]
          /\ UNCHANGED <<scope, groq_keys, active_tasks, handler, store, queue>>

\* cb_handler, 'refresh_bot'
refresh_bot(uid) ==
  /\ handler.pc = "idle" /\ NoPendingCancel /\ NoneCreated
  /\ user_data' = [user_data EXCEPT ![uid] = "absent"]
  /\ session_stats' = [session_stats EXCEPT !.total_leads = 0,
                                            !.status = Idle,
                                            !.active_by_id = None,
                                            !.active_by_name = None]
  /\ tasks' = Cancel(uid, "reset")
  /\ UNCHANGED <<scope, groq_keys, active_tasks, handler, store, queue>>

\* ------------------------------------------------------------ specification
Next ==
  \/ \E uid \in scope.owners, text \in Texts : message_handler(uid, text)
  \/ \E uid \in scope.owners : auto_s(uid)
  \/ AutoInit
  \/ HandlerEmptyMsg
  \/ HandlerErrLog
  \/ \E uid \in scope.owners : stop_loop(uid)
  \/ \E uid \in scope.owners : refresh_bot(uid)
  \/ \E t \in TaskIds : TaskStart(t)
  \/ \E t \in TaskIds : StatusSent(t)
  \/ \E t \in TaskIds : ExpandResp(t)
  \/ \E t \in TaskIds : EditGen(t)
  \/ \E t \in TaskIds : Progress(t)
  \/ \E t \in TaskIds : Sleep(t)
  \/ \E t \in TaskIds : Search(t)
  \/ \E t \in TaskIds : Details(t)
  \/ \E t \in TaskIds : Validate(t)
  \/ \E t \in TaskIds : Export(t)
  \/ \E t \in TaskIds : CrashLog(t)
  \/ \E t \in TaskIds : ChainSleep(t)
  \/ \E t \in TaskIds : ChainEmptyMsg(t)
  \/ \E t \in TaskIds : ChainErrLog(t)
  \/ \E t \in TaskIds : TaskCancelled(t)

Spec == Init /\ [][Next]_vars
SpecDeep == InitDeep /\ [][Next]_vars
SpecKeys == InitKeys /\ [][Next]_vars

\* The auto-chain scenario: the only update is 'Auto Mode', pressed while
\* nothing has been started; every task runs as in Next.
NextChain ==
  \/ \E uid \in scope.owners : auto_s(uid) /\ tasks = <<>>
  \/ AutoInit
  \/ \E t \in TaskIds : TaskStart(t)
  \/ \E t \in TaskIds : StatusSent(t)
  \/ \E t \in TaskIds : ExpandResp(t)
  \/ \E t \in TaskIds : EditGen(t)
  \/ \E t \in TaskIds : Progress(t)
  \/ \E t \in TaskIds : Sleep(t)
  \/ \E t \in TaskIds : Search(t)
  \/ \E t \in TaskIds : Details(t)
  \/ \E t \in TaskIds : Validate(t)
  \/ \E t \in TaskIds : Export(t)
  \/ \E t \in TaskIds : CrashLog(t)
  \/ \E t \in TaskIds : ChainSleep(t)
  \/ \E t \in TaskIds : ChainEmptyMsg(t)
  \/ \E t \in TaskIds : ChainErrLog(t)

SpecChain == InitChain /\ [][NextChain]_vars

\* ------------------------------------------------------------ claims
CrawlsOf(uid) == {t \in TaskIds : tasks[t].uid = uid /\ InCrawl(t)}

\* C1: every owner has at most one crawl in flight at any time.
C1_OneCrawlPerOwner ==
  \A uid \in OWNER_IDS : Cardinality(CrawlsOf(uid)) <= 1

\* a start request of uid: a text message, or 'Auto Mode' (both of its steps)
StartRequest(uid) ==
  \/ \E text \in Texts : message_handler(uid, text)
  \/ auto_s(uid)
  \/ handler.uid = uid /\ AutoInit

\* C2: a start request of an owner who has a running crawl changes nothing:
\* no task is created, the status register, the owner's stop flag and the
\* work queue stay as they are.
C2_StartWhileRunningRejected ==
  [][\A uid \in OWNER_IDS :
       (CrawlsOf(uid) # {} /\ StartRequest(uid)) =>
         UNCHANGED <<tasks, active_tasks, session_stats, user_data, queue>>]_vars

\* C3: process-wide, at most one crawl is in flight at any time.
C3_OneCrawlProcessWide ==
  Cardinality({t \in TaskIds : InCrawl(t)}) <= 1

\* C4: when a started crawl task ends, the status register is 'Idle' with no
\* active owner.
C4_ResetOnEveryExit ==
  [][\A t \in TaskIds :
       (tasks[t].pc \notin {"created", "done"} /\ tasks'[t].pc = "done") =>
         /\ session_stats'.status = Idle
         /\ session_stats'.active_by_id = None
         /\ session_stats'.active_by_name = None]_vars

\* C5: a Stop pressed by an admin who has no crawl of their own while a crawl
\* of another admin is in flight has no side effect: that crawl's stop flag
\* and task are untouched and the status register is unchanged.
C5_ForeignStopNoEffect ==
  [][\A uid \in OWNER_IDS :
       (stop_loop(uid) /\ CrawlsOf(uid) = {} /\ \E t \in TaskIds : InCrawl(t)) =>
         /\ \A t \in TaskIds :
              InCrawl(t) => /\ user_data'[tasks[t].uid] = user_data[tasks[t].uid]
                            /\ tasks'[t].cancel = tasks[t].cancel
         /\ session_stats'.status = session_stats.status
         /\ session_stats'.active_by_id = session_stats.active_by_id
         /\ session_stats'.active_by_name = session_stats.active_by_name]_vars

NoTaskRunning == \A t \in TaskIds : tasks[t].pc = "done"

\* C6: a Stop pressed while the status is 'Idle' and no task runs changes
\* neither the status register nor any stop flag, and 'Auto Mode' is
\* accepted afterwards as it was before.
C6_IdleStopNoEffect ==
  [][\A uid \in OWNER_IDS :
       (stop_loop(uid) /\ session_stats.status = Idle /\ NoTaskRunning) =>
         /\ UNCHANGED <<session_stats, user_data>>
         /\ \A v \in OWNER_IDS : ~AutoBusy(v)']_vars

\* C7: while a crawl is in flight, its owner's stop flag, once true, stays
\* true until that crawl has left its loop.
C7_SignalMonotonic ==
  [][\A t \in TaskIds :
       (InCrawl(t) /\ stop_signal(tasks[t].uid) /\ InCrawl(t)') =>
         stop_signal(tasks[t].uid)']_vars

\* C8: when the owner's Stop cancels a crawl that holds a non-empty batch
\* anywhere in its loop, the crawl goes to its export step with exactly that
\* batch.
C8_StopKeepsBatch ==
  [][\A t \in TaskIds :
       (/\ tasks[t].cancel = "stop" /\ tasks[t].pc \in LoopPcs
        /\ tasks[t].leads # <<>> /\ tasks'[t].cancel = "none") =>
         /\ tasks'[t].pc = "export"
         /\ tasks'[t].leads = tasks[t].leads]_vars

\* C9: once the owner's Stop has set the signal of a crawl in flight, that
\* crawl passes no further checkpoint: it begins no term, no (term, region)
\* pair and no item.
C9_NoNewWorkAfterSignal ==
  [][\A t \in TaskIds :
       (tasks[t].signalled /\ tasks'[t] # tasks[t]) =>
         tasks'[t].pc \notin {"progress", "sleep", "search", "details"}]_vars

AllLeads == UNION {{<<t, i>> : i \in 1..Len(tasks[t].leads)} : t \in TaskIds}

\* C10: no contact is emitted as a lead twice, in one batch or across the
\* batches of all crawls; a lead is appended only for a key that was not in
\* the store, and with the append the key is in the store.
C10_NoLeadTwice ==
  /\ [](\A x \in AllLeads, y \in AllLeads :
          tasks[x[1]].leads[x[2]].email = tasks[y[1]].leads[y[2]].email => x = y)
  /\ [][\A t \in TaskIds :
          Len(tasks'[t].leads) > Len(tasks[t].leads) =>
            /\ safe_key(tasks[t].email) \notin store
            /\ safe_key(tasks[t].email) \in store'
            /\ tasks'[t].leads =
                 Append(tasks[t].leads, tasks'[t].leads[Len(tasks'[t].leads)])
            /\ tasks'[t].leads[Len(tasks'[t].leads)].email = tasks[t].email]_vars

\* two crawls race on one contact: one has appended the lead, the other has
\* fetched the same contact and is about to read the store
C10_RaceWitness ==
  \E t1 \in TaskIds, t2 \in TaskIds :
    /\ t1 # t2
    /\ tasks[t2].pc = "validate"
    /\ \E i \in 1..Len(tasks[t1].leads) : tasks[t1].leads[i].email = tasks[t2].email
    /\ safe_key(tasks[t2].email) \in store

\* the number of installs an item of the catalog has
InstallCount(app_id) ==
  CASE app_id = "p1" -> 9999 [] app_id = "p2" -> 10000 [] OTHER -> 500

ValidContact(app_id) ==
  LET email == Normalize(Catalog(app_id).developerEmail)
  IN  email # <<>> /\ FormatOk(email)

\* C11: an item with 10000 installs or more is rejected by the filter and is
\* in no batch; an item with fewer installs (9999) and a valid contact passes
\* the filter, and with a positive MX answer and an unreserved key it is
\* appended to the batch.
C11_FilterAtCeiling ==
  /\ \A x \in AllLeads :
       InstallCount(tasks[x[1]].leads[x[2]].app_id) < InstallCeiling
  /\ \A t \in TaskIds :
       tasks[t].pc = "details" =>
         LET item == tasks[t].results[tasks[t].r_idx]
             F == AfterDetails(Frame(t), FALSE, item)
         IN  /\ InstallCount(item) >= InstallCeiling => F.tk.pc # "validate"
             /\ (InstallCount(item) < InstallCeiling /\ ValidContact(item)) =>
                  F.tk.pc = "validate"
  /\ \A t \in TaskIds :
       (tasks[t].pc = "validate" /\ safe_key(tasks[t].email) \notin store) =>
         LET F == AfterValidate(Frame(t), FALSE, TRUE, "ok")
         IN  /\ Len(F.tk.leads) = Len(tasks[t].leads) + 1
             /\ F.tk.leads[Len(F.tk.leads)].app_id =
                  tasks[t].results[tasks[t].r_idx]

\* a lead of an item one below the ceiling is in a batch while an item at the
\* ceiling is being fetched
C11_BoundaryWitness ==
  /\ \E x \in AllLeads :
       InstallCount(tasks[x[1]].leads[x[2]].app_id) = InstallCeiling - 1
  /\ \E t \in TaskIds :
       /\ tasks[t].pc = "details"
       /\ InstallCount(tasks[t].results[tasks[t].r_idx]) = InstallCeiling

\* C12: the list that term expansion returns contains the seed term, has no
\* term twice and has at most 50 terms.
C12_ExpandResult ==
  \A t \in TaskIds :
    tasks[t].pc = "edit_gen" =>
      LET keywords == tasks[t].keywords
      IN  /\ \E i \in 1..Len(keywords) : keywords[i] = tasks[t].base_kw
          /\ \A i, j \in 1..Len(keywords) : keywords[i] = keywords[j] => i = j
          /\ Len(keywords) <= MaxKeywords

\* the chain is over: it was started, and no handler and no task is left
ChainOver ==
  /\ handler.pc = "idle"
  /\ tasks # <<>>
  /\ \A t \in TaskIds : tasks[t].pc = "done"

\* C13: an auto chain on the queue <<a, b>> with no Stop runs its crawls one
\* after the other, never starts a third, and when it is over it has run two
\* crawls, the queue is empty and the status is 'Idle'.
C13_ChainOfTwo ==
  /\ Cardinality({t \in TaskIds : InCrawl(t)}) <= 1
  /\ Len(tasks) <= 2
  /\ Len(tasks) = 2 => tasks[1].pc = "done"
  /\ ChainOver => /\ Len(tasks) = 2
                  /\ queue = <<>>
                  /\ session_stats.status = Idle

\* C14: a crawl of an auto chain on which the owner's Stop has landed (during
\* the crawl, or as a cancellation during the pause or at the created task)
\* never goes on to the chain's pause, pops no queue item and creates no task.
C14_StopEndsChain ==
  [][\A t \in TaskIds :
       (/\ tasks[t].is_auto
        /\ tasks[t].signalled \/ tasks[t].cancel = "stop"
        /\ tasks'[t] # tasks[t]) =>
         /\ tasks'[t].pc # "chain_sleep"
         /\ queue' = queue
         /\ Len(tasks') = Len(tasks)]_vars

\* C15: an error of the queue fetch starts no crawl and leaves the queue as
\* it is; once the error has been logged the chain is over (the task ends,
\* the handler returns), nothing is fetched again and the status is 'Idle'.
C15_FetchErrorEndsChain ==
  [][/\ \A t \in TaskIds :
          (tasks[t].pc = "chain_sleep" /\ tasks'[t].pc = "auto_err_log") =>
            queue' = queue /\ Len(tasks') = Len(tasks)
     /\ \A t \in TaskIds :
          (/\ tasks[t].pc = "auto_err_log" /\ tasks'[t] # tasks[t]
           /\ tasks'[t].cancel = "none") =>
            /\ tasks'[t].pc = "done"
            /\ session_stats'.status = Idle
            /\ queue' = queue /\ Len(tasks') = Len(tasks)
     /\ (handler.pc = "auto_init" /\ handler'.pc = "auto_err_log") =>
          queue' = queue /\ tasks' = tasks
     /\ (handler.pc = "auto_err_log" /\ handler' # handler) =>
          /\ handler'.pc = "idle"
          /\ session_stats'.status = Idle
          /\ queue' = queue /\ tasks' = tasks]_vars

\* the first queue fetch of a chain has failed (the queue holds an item, so
\* the chain is not at its "Database empty" message) and the error is being
\* logged
C15_FetchErrorWitness ==
  /\ handler.pc = "auto_err_log"
  /\ queue # <<>>

\* the normalized contacts the crawls have met: those of the leads and those
\* whose key is about to be looked up
ContactsMet ==
  {tasks[x[1]].leads[x[2]].email : x \in AllLeads}
    \cup {tasks[t].email : t \in {u \in TaskIds : tasks[u].pc = "validate"}}

\* C16: two different contacts never have the same dedup key.
C16_KeyInjective ==
  \A e1 \in ContactsMet, e2 \in ContactsMet :
    safe_key(e1) = safe_key(e2) => e1 = e2

\* C17: whatever a search, a detail fetch or the store calls of an item do
\* (return or raise), with no stop requested the crawl stays in its loop: the
\* batch keeps the leads it had, and the crawl goes on with the same pair, with
\* the next pair in order, or, after the last pair, to its export.
C17_FailureSkipsOnly ==
  [][\A t \in TaskIds :
       (/\ tasks[t].pc \in {"search", "details", "validate"}
        /\ <<tasks'[t].pc, tasks'[t].kw_idx, tasks'[t].c_idx, tasks'[t].r_idx>>
             # <<tasks[t].pc, tasks[t].kw_idx, tasks[t].c_idx, tasks[t].r_idx>>
        /\ ~stop_signal(tasks[t].uid)) =>
         LET a == tasks[t]
             b == tasks'[t]
             last == a.c_idx = Len(Regions)
         IN  /\ Len(b.leads) >= Len(a.leads)
             /\ SubSeq(b.leads, 1, Len(a.leads)) = a.leads
             /\ \/ /\ b.pc \in {"details", "validate"}
                   /\ b.kw_idx = a.kw_idx /\ b.c_idx = a.c_idx
                   /\ b.r_idx >= a.r_idx
                \/ /\ b.pc = "sleep" /\ ~last
                   /\ b.kw_idx = a.kw_idx /\ b.c_idx = a.c_idx + 1
                \/ /\ b.pc \in {"sleep", "progress"} /\ last
                   /\ a.kw_idx < Len(a.keywords)
                   /\ b.kw_idx = a.kw_idx + 1 /\ b.c_idx <= 1
                \/ /\ b.pc = "export" /\ last
                   /\ a.kw_idx = Len(a.keywords)]_vars

\* the store write of an item has failed after reaching the store (the key is
\* reserved, no lead was appended) and the only crawl is at the next region
C17_SkipWitness ==
  /\ Len(tasks) = 1
  /\ tasks[1].pc = "sleep" /\ tasks[1].c_idx = 2
  /\ tasks[1].leads = <<>>
  /\ store # {}

\* C18: within one crawl the detail fetch is called at most once per item: a
\* crawl never fetches an item of which its batch already holds the lead.
C18_OneFetchPerItem ==
  \A t \in TaskIds :
    tasks[t].pc = "details" =>
      \A i \in 1..Len(tasks[t].leads) :
        tasks[t].leads[i].app_id # tasks[t].results[tasks[t].r_idx]

\* C19: whatever the status message, the 'keywords generated' edit or a
\* progress edit does (return or raise), the crawl task does not end there.
C19_SinkFailureHarmless ==
  [][\A t \in TaskIds :
       (/\ tasks[t].pc \in {"send_status", "edit_gen", "progress"}
        /\ tasks[t].cancel = "none"
        /\ tasks'[t].pc # tasks[t].pc) =>
         tasks'[t].pc # "done"]_vars

\* C20: when the cancellation of 'Reset Bot' is delivered to the owner's
\* crawl task, the task ends: it is no longer in flight and goes on to no
\* chained crawl.
C20_ResetStopsCrawl ==
  [][\A t \in TaskIds :
       (tasks[t].cancel = "reset" /\ tasks'[t].cancel = "none") =>
         tasks'[t].pc = "done"]_vars

====
